---------------------------- MODULE Spec2Model ----------------------------
(* Inventory REST service (service/routes.py): the store of inventory     *)
(* records and the route handlers that read and write it.                 *)
(*                                                                        *)
(* A request is handled by one handler, atomically (the application does  *)
(* no locking of its own and every handler is one transaction).  The      *)
(* state keeps the store, the store as it was when the request arrived,   *)
(* the request and the response, so that every property of a handler is   *)
(* a predicate of the state right after it.  Teardown ends the request.   *)
EXTENDS Integers, FiniteSets, Sequences, Bags, TLC

VARIABLES store, prev, req, resp, test

vars == <<store, prev, req, resp, test>>

--------------------------------------------------------------------------
(* Bounds and input domains                                               *)

\* The largest number of rows the store holds in the model.
MaxRows == 2

\* An optional value: <<>> is None / an absent key, <<v>> is the value v.
Absent == <<>>

Some(v) == <<v>>

Opt(S) == {Absent} \cup {Some(v) : v \in S}

PIDs == {1, 2}

Quantities == {-1, 2}

RestockLevels == {3}

\* Condition names used in request paths: names of enumeration members.
PathConditions == {"NEW", "USED"}

\* The keys valid payloads name: two conditions of product 1 and one of
\* product 2.  The key (2, USED) is addressed by paths but never stored.
PayloadKeys == {<<1, "NEW">>, <<1, "USED">>, <<2, "NEW">>}

--------------------------------------------------------------------------
(* service.constants, HTTP status codes, the Condition enumeration        *)

PRODUCT_ID == "product_id"

CONDITION == "condition"

QUANTITY == "quantity"

RESTOCK_LEVEL == "restock_level"

AVAILABLE == "available"

HTTP_200_OK == 200

HTTP_201_CREATED == 201

HTTP_204_NO_CONTENT == 204

HTTP_400_BAD_REQUEST == 400

HTTP_404_NOT_FOUND == 404

HTTP_415_UNSUPPORTED_MEDIA_TYPE == 415

HTTP_500_INTERNAL_SERVER_ERROR == 500

JSON == "application/json"

TEXT == "text/plain"

\* The names of the members of the enumeration Condition.
ConditionNames == {"NEW", "OPEN_BOX", "USED"}

\* A member of the enumeration: distinct from the string that names it.
Member(n) == [name |-> n]

\* Condition[name]: defined for the names of members, KeyError otherwise.
ConditionHasName(n) == n \in ConditionNames

ConditionByName(n) == Member(n)

--------------------------------------------------------------------------
(* service.models: the Inventory record and its store                     *)

\* A stored row.  condition is a member of Condition, restock_level is
\* optional (nullable column), available is a boolean.
Rows ==
    [product_id : PIDs, condition : {Member(n) : n \in ConditionNames},
     quantity : Quantities, restock_level : Opt(RestockLevels),
     available : BOOLEAN]

\* Inventory(): a record not yet populated.  The column default of
\* available (true) is what an insert stores when the field was never set.
Inventory ==
    [product_id |-> 0, condition |-> Member("NEW"), quantity |-> 0,
     restock_level |-> Absent, available |-> TRUE]

\* A parsed request body: a mapping (kind "dict") whose keys are present
\* (Some) or not (Absent), a JSON value that is no mapping (kind "str"),
\* or None (kind "none").
NoFields ==
    [product_id |-> Absent, condition |-> Absent, quantity |-> Absent,
     restock_level |-> Absent, available |-> Absent]

Mapping(f) == [kind |-> "dict", fields |-> f]

NotAMapping == [kind |-> "str", fields |-> NoFields]

None == [kind |-> "none", fields |-> NoFields]

\* The rows of the store, each once.
all(st) == BagToSet(st)

Key(r) == <<r.product_id, r.condition.name>>

Keys(st) == {Key(r) : r \in all(st)}

find_by_product_id(st, product_id) ==
    {r \in all(st) : r.product_id = product_id}

\* The condition is given as a member or as the name of one.
find_by_condition(st, condition) ==
    {r \in all(st) : r.condition = condition}

find_by_quantity(st, quantity) ==
    {r \in all(st) : r.quantity = quantity}

find_by_restock_level(st, restock_level) ==
    {r \in all(st) : r.restock_level = Some(restock_level)}

find_by_availability(st, available) ==
    {r \in all(st) : r.available = available}

\* The first row with the key, or None (Absent).
find_by_product_id_condition(st, product_id, condition) ==
    LET found == {r \in all(st) : /\ r.product_id = product_id
                                  /\ r.condition = ConditionByName(condition)}
    IN  IF found = {} THEN Absent ELSE Some(CHOOSE r \in found : TRUE)

\* create without the key constraint.
create_unconstrained(st, inventory) ==
    [ok |-> TRUE, store |-> st (+) SetToBag({inventory})]

\* Inventory.create: inserts the row.  (product_id, condition) is the
\* natural key of the table: a second row with a stored key is a
\* constraint violation, which the store raises and the insert is undone.
create(st, inventory) ==
    IF Key(inventory) \in Keys(st)
    THEN [ok |-> FALSE, store |-> st]
    ELSE [ok |-> TRUE, store |-> st (+) SetToBag({inventory})]

\* Inventory.update: writes the loaded row `old` back as `inventory`.
update(st, old, inventory) ==
    IF Key(inventory) # Key(old) /\ Key(inventory) \in Keys(st)
    THEN [ok |-> FALSE, store |-> st]
    ELSE [ok |-> TRUE,
          store |-> (st (-) SetToBag({old})) (+) SetToBag({inventory})]

\* Inventory.delete: removes the loaded row.
delete(st, inventory) == st (-) SetToBag({inventory})

\* serialize without the restock_level.
serialize_without_restock_level(inventory) ==
    Mapping([product_id |-> Some(inventory.product_id),
             condition |-> Some(inventory.condition.name),
             quantity |-> Some(inventory.quantity),
             restock_level |-> Absent,
             available |-> Some(inventory.available)])

\* Inventory.serialize: the mapping sent to the client; the condition is
\* given by the name of the member.
serialize(inventory) ==
    Mapping([product_id |-> Some(inventory.product_id),
             condition |-> Some(inventory.condition.name),
             quantity |-> Some(inventory.quantity),
             restock_level |-> inventory.restock_level,
             available |-> Some(inventory.available)])

\* Inventory.deserialize: populates the record from a mapping, or raises
\* DataValidationError (ok = FALSE): the data is no mapping, product_id,
\* condition or quantity is missing, or condition names no member.
deserialize(inventory, data) ==
    LET f == data.fields
        bad == \/ data.kind # "dict"
               \/ f.product_id = Absent
               \/ f.condition = Absent
               \/ f.quantity = Absent
               \/ ~ConditionHasName(f.condition[1])
    IN  IF bad
        THEN [ok |-> FALSE, inventory |-> inventory]
        ELSE [ok |-> TRUE,
              inventory |->
                [product_id |-> f.product_id[1],
                 condition |-> ConditionByName(f.condition[1]),
                 quantity |-> f.quantity[1],
                 restock_level |-> f.restock_level,
                 available |-> IF f.available = Absent
                               THEN inventory.available
                               ELSE f.available[1]]]

--------------------------------------------------------------------------
(* service.routes: the handlers.  Each takes the store and the request    *)
(* and gives the store after it and the response.                         *)

NoBody == None

\* A response: status, the record in the body (or NoBody), the array in
\* the body (results; empty when the body is no array) and whether the
\* body is an array.
Response(st, status, body, results, is_array) ==
    [store |-> st, status |-> status, body |-> body, results |-> results,
     is_array |-> is_array]

Error(st, status) == Response(st, status, NoBody, {}, FALSE)

\* request.get_json(): the parsed body when the request declares JSON,
\* None otherwise.
get_json(request) ==
    IF request.content_type = JSON THEN request.body ELSE None

check_content_type(request, content_type) ==
    request.content_type = content_type

\* list_inventory looking for condition before product_id.
list_inventory_condition_first(st, params) ==
    LET answer(inventories) ==
            LET results == {serialize(inventory) : inventory \in inventories}
            IN  IF Cardinality(results) = 0
                THEN Error(st, HTTP_404_NOT_FOUND)
                ELSE Response(st, HTTP_200_OK, NoBody, results, TRUE)
    IN  IF params.condition # Absent
        THEN IF ConditionHasName(params.condition[1])
             THEN answer(find_by_condition(
                             st, ConditionByName(params.condition[1])))
             ELSE Error(st, HTTP_500_INTERNAL_SERVER_ERROR)
        ELSE IF params.product_id # Absent
        THEN answer(find_by_product_id(st, params.product_id[1]))
        ELSE IF params.quantity # Absent
        THEN answer(find_by_quantity(st, params.quantity[1]))
        ELSE IF params.restock_level # Absent
        THEN answer(find_by_restock_level(st, params.restock_level[1]))
        ELSE IF params.available # Absent
        THEN answer(find_by_availability(st, params.available[1]))
        ELSE IF params.other
        THEN Error(st, HTTP_400_BAD_REQUEST)
        ELSE answer(all(st))

list_inventory(st, params) ==
    LET answer(inventories) ==
            LET results == {serialize(inventory) : inventory \in inventories}
            IN  IF Cardinality(results) = 0
                THEN Error(st, HTTP_404_NOT_FOUND)
                ELSE Response(st, HTTP_200_OK, NoBody, results, TRUE)
    IN  IF params.product_id # Absent
        THEN answer(find_by_product_id(st, params.product_id[1]))
        ELSE IF params.condition # Absent
        THEN IF ConditionHasName(params.condition[1])
             THEN answer(find_by_condition(
                             st, ConditionByName(params.condition[1])))
             ELSE Error(st, HTTP_500_INTERNAL_SERVER_ERROR)
        ELSE IF params.quantity # Absent
        THEN answer(find_by_quantity(st, params.quantity[1]))
        ELSE IF params.restock_level # Absent
        THEN answer(find_by_restock_level(st, params.restock_level[1]))
        ELSE IF params.available # Absent
        THEN answer(find_by_availability(st, params.available[1]))
        ELSE IF params.other
        THEN Error(st, HTTP_400_BAD_REQUEST)
        ELSE answer(all(st))

\* create_inventory without the call of create().
create_inventory_unsaved(st, request) ==
    IF ~check_content_type(request, JSON)
    THEN Error(st, HTTP_415_UNSUPPORTED_MEDIA_TYPE)
    ELSE LET d == deserialize(Inventory, get_json(request))
         IN  IF ~d.ok
             THEN Error(st, HTTP_400_BAD_REQUEST)
             ELSE Response(st, HTTP_201_CREATED,
                           serialize(d.inventory), {}, FALSE)

\* create_inventory going on after a validation error.
create_inventory_unvalidated(st, request) ==
    IF ~check_content_type(request, JSON)
    THEN Error(st, HTTP_415_UNSUPPORTED_MEDIA_TYPE)
    ELSE LET d == deserialize(Inventory, get_json(request))
             c == create(st, d.inventory)
         IN  IF ~c.ok
             THEN Error(st, HTTP_500_INTERNAL_SERVER_ERROR)
             ELSE Response(c.store, HTTP_201_CREATED,
                           serialize(d.inventory), {}, FALSE)

create_inventory(st, request) ==
    IF ~check_content_type(request, JSON)
    THEN Error(st, HTTP_415_UNSUPPORTED_MEDIA_TYPE)
    ELSE LET d == deserialize(Inventory, get_json(request))
         IN  IF ~d.ok
             THEN Error(st, HTTP_400_BAD_REQUEST)
             ELSE LET c == create(st, d.inventory)
                  IN  IF ~c.ok
                      THEN Error(st, HTTP_500_INTERNAL_SERVER_ERROR)
                      ELSE Response(c.store, HTTP_201_CREATED,
                                    serialize(d.inventory), {}, FALSE)

get_inventory_by_product_id_condition(st, product_id, condition) ==
    LET inventory == find_by_product_id_condition(st, product_id, condition)
    IN  IF inventory = Absent
        THEN Error(st, HTTP_404_NOT_FOUND)
        ELSE Response(st, HTTP_200_OK, serialize(inventory[1]), {}, FALSE)

get_inventory_by_product_id(st, product_id) ==
    LET inventories == find_by_product_id(st, product_id)
    IN  IF inventories = {}
        THEN Error(st, HTTP_404_NOT_FOUND)
        ELSE Response(st, HTTP_200_OK, NoBody,
                      {serialize(inventory) : inventory \in inventories},
                      TRUE)

\* The store compares the column with the member the string names.
get_inventory_by_condition(st, condition) ==
    LET inventories == find_by_condition(st, ConditionByName(condition))
    IN  IF inventories = {}
        THEN Error(st, HTTP_404_NOT_FOUND)
        ELSE Response(st, HTTP_200_OK, NoBody,
                      {serialize(inventory) : inventory \in inventories},
                      TRUE)

\* update_inventory without the two assignments that pin the key.
update_inventory_unpinned(st, product_id, condition, request) ==
    LET inventory == find_by_product_id_condition(st, product_id, condition)
    IN  IF inventory = Absent
        THEN Error(st, HTTP_404_NOT_FOUND)
        ELSE LET d == deserialize(inventory[1], get_json(request))
             IN  IF ~d.ok
                 THEN Error(st, HTTP_400_BAD_REQUEST)
                 ELSE LET u == update(st, inventory[1], d.inventory)
                      IN  IF ~u.ok
                          THEN Error(st, HTTP_500_INTERNAL_SERVER_ERROR)
                          ELSE Response(u.store, HTTP_200_OK,
                                        serialize(d.inventory), {}, FALSE)

\* update_inventory creating the record when the key is not stored.
update_inventory_upsert(st, product_id, condition, request) ==
    LET inventory == find_by_product_id_condition(st, product_id, condition)
        loaded == IF inventory = Absent THEN Inventory ELSE inventory[1]
        d == deserialize(loaded, get_json(request))
    IN  IF ~d.ok
        THEN Error(st, HTTP_400_BAD_REQUEST)
        ELSE LET pinned ==
                   [d.inventory EXCEPT
                      !.product_id = product_id,
                      !.condition = ConditionByName(condition)]
                 u == IF inventory = Absent
                      THEN create(st, pinned)
                      ELSE update(st, inventory[1], pinned)
             IN  IF ~u.ok
                 THEN Error(st, HTTP_500_INTERNAL_SERVER_ERROR)
                 ELSE Response(u.store, HTTP_200_OK,
                               serialize(pinned), {}, FALSE)

\* Load the row, deserialize the body into it, pin the key to the path's
\* (the store takes the condition's name for the member), write it back.
update_inventory(st, product_id, condition, request) ==
    LET inventory == find_by_product_id_condition(st, product_id, condition)
    IN  IF inventory = Absent
        THEN Error(st, HTTP_404_NOT_FOUND)
        ELSE LET d == deserialize(inventory[1], get_json(request))
             IN  IF ~d.ok
                 THEN Error(st, HTTP_400_BAD_REQUEST)
                 ELSE LET pinned ==
                            [d.inventory EXCEPT
                               !.product_id = product_id,
                               !.condition = ConditionByName(condition)]
                          u == update(st, inventory[1], pinned)
                      IN  IF ~u.ok
                          THEN Error(st, HTTP_500_INTERNAL_SERVER_ERROR)
                          ELSE Response(u.store, HTTP_200_OK,
                                        serialize(pinned), {}, FALSE)

activate_inventory(st, product_id, condition, request) ==
    LET inventory == find_by_product_id_condition(st, product_id, condition)
    IN  IF inventory = Absent
        THEN Error(st, HTTP_404_NOT_FOUND)
        ELSE LET d == deserialize(inventory[1], get_json(request))
             IN  IF ~d.ok
                 THEN Error(st, HTTP_400_BAD_REQUEST)
                 ELSE LET pinned ==
                            [d.inventory EXCEPT
                               !.product_id = product_id,
                               !.condition = ConditionByName(condition),
                               !.available = TRUE]
                          u == update(st, inventory[1], pinned)
                      IN  IF ~u.ok
                          THEN Error(st, HTTP_500_INTERNAL_SERVER_ERROR)
                          ELSE Response(u.store, HTTP_200_OK,
                                        serialize(pinned), {}, FALSE)

deactivate_inventory(st, product_id, condition, request) ==
    LET inventory == find_by_product_id_condition(st, product_id, condition)
    IN  IF inventory = Absent
        THEN Error(st, HTTP_404_NOT_FOUND)
        ELSE LET d == deserialize(inventory[1], get_json(request))
             IN  IF ~d.ok
                 THEN Error(st, HTTP_400_BAD_REQUEST)
                 ELSE LET pinned ==
                            [d.inventory EXCEPT
                               !.product_id = product_id,
                               !.condition = ConditionByName(condition),
                               !.available = FALSE]
                          u == update(st, inventory[1], pinned)
                      IN  IF ~u.ok
                          THEN Error(st, HTTP_500_INTERNAL_SERVER_ERROR)
                          ELSE Response(u.store, HTTP_200_OK,
                                        serialize(pinned), {}, FALSE)

\* delete_inventory answering 404 for a key that is not stored.
delete_inventory_strict(st, product_id, condition) ==
    LET inventory == find_by_product_id_condition(st, product_id, condition)
    IN  IF inventory # Absent
        THEN Response(delete(st, inventory[1]), HTTP_204_NO_CONTENT,
                      NoBody, {}, FALSE)
        ELSE Error(st, HTTP_404_NOT_FOUND)

delete_inventory(st, product_id, condition) ==
    LET inventory == find_by_product_id_condition(st, product_id, condition)
    IN  IF inventory # Absent
        THEN Response(delete(st, inventory[1]), HTTP_204_NO_CONTENT,
                      NoBody, {}, FALSE)
        ELSE Response(st, HTTP_204_NO_CONTENT, NoBody, {}, FALSE)

--------------------------------------------------------------------------
(* Requests                                                               *)

Payload(product_id, condition, quantity, restock_level, available) ==
    Mapping([product_id |-> product_id, condition |-> condition,
             quantity |-> quantity, restock_level |-> restock_level,
             available |-> available])

\* Payloads with every required key and a condition that names a member.
ValidPayloads ==
    {Payload(Some(k[1]), Some(k[2]), Some(q), r, a) :
        k \in PayloadKeys, q \in Quantities,
        r \in Opt(RestockLevels), a \in Opt(BOOLEAN)}

\* The payloads of test_deserialize_missing_data, _bad_data, _bad_gender,
\* and those that lack product_id or quantity.
InvalidPayloads ==
    {NotAMapping} \cup
    {Payload(p, c, q, Some(3), Absent) :
        <<p, c, q>> \in {<<Absent, Some("NEW"), Some(2)>>,
                         <<Some(1), Absent, Some(2)>>,
                         <<Some(1), Some("NEW"), Absent>>,
                         <<Some(1), Some("new"), Some(2)>>}}

\* A write request: the declared content type and the body sent.
WriteRequests ==
    [content_type : {JSON}, body : ValidPayloads \cup InvalidPayloads]
    \cup [content_type : {TEXT},
          body : {NotAMapping, Payload(Some(1), Some("NEW"), Some(2),
                                       Some(3), Absent)}]

NoRequest == [content_type |-> TEXT, body |-> None]

\* The query parameters of a list request; other: a parameter that is
\* none of the five is present.
Params ==
    [product_id : Opt(PIDs), condition : Opt({"NEW", "new"}),
     quantity : Opt({2}), restock_level : Opt(RestockLevels),
     available : Opt({TRUE}), other : BOOLEAN]

NoParams ==
    [product_id |-> Absent, condition |-> Absent, quantity |-> Absent,
     restock_level |-> Absent, available |-> Absent, other |-> FALSE]

\* The request being handled: the operation, the key in the path, the
\* content type and body, the query parameters.
Req(op, product_id, condition, request, params) ==
    [op |-> op, product_id |-> product_id, condition |-> condition,
     request |-> request, params |-> params]

Idle == Req("idle", 0, "", NoRequest, NoParams)

NoResponse == [status |-> 0, body |-> NoBody, results |-> {},
               is_array |-> FALSE]

--------------------------------------------------------------------------
(* The state machine                                                      *)

\* The record a model test works on: the inventory it built, the mapping
\* it serialized it to and the record it deserialized the mapping into.
Test(step, inventory, data, ok, copy) ==
    [step |-> step, inventory |-> inventory, data |-> data, ok |-> ok,
     copy |-> copy]

NoTest == Test("none", Inventory, None, FALSE, Inventory)

Init ==
    /\ store = EmptyBag
    /\ prev = EmptyBag
    /\ req = Idle
    /\ resp = NoResponse
    /\ test = NoTest

\* A handler ran on `request` and answered `r`.
Handled(request, r) ==
    /\ req = Idle
    /\ BagCardinality(r.store) <= MaxRows
    /\ prev' = store
    /\ store' = r.store
    /\ req' = request
    /\ resp' = [status |-> r.status, body |-> r.body,
                results |-> r.results, is_array |-> r.is_array]
    /\ UNCHANGED test

ListInventory ==
    \E params \in Params :
        Handled(Req("list", 0, "", NoRequest, params),
                list_inventory(store, params))

CreateInventory ==
    \E request \in WriteRequests :
        Handled(Req("create", 0, "", request, NoParams),
                create_inventory(store, request))

GetInventoryByProductIdCondition ==
    \E product_id \in PIDs, condition \in PathConditions :
        Handled(Req("get", product_id, condition, NoRequest, NoParams),
                get_inventory_by_product_id_condition(
                    store, product_id, condition))

GetInventoryByProductId ==
    \E product_id \in PIDs :
        Handled(Req("get_by_product_id", product_id, "", NoRequest, NoParams),
                get_inventory_by_product_id(store, product_id))

GetInventoryByCondition ==
    \E condition \in ConditionNames :
        Handled(Req("get_by_condition", 0, condition, NoRequest, NoParams),
                get_inventory_by_condition(store, condition))

UpdateInventory ==
    \E product_id \in PIDs, condition \in PathConditions,
       request \in WriteRequests :
        Handled(Req("update", product_id, condition, request, NoParams),
                update_inventory(store, product_id, condition, request))

ActivateInventory ==
    \E product_id \in PIDs, condition \in PathConditions,
       request \in WriteRequests :
        Handled(Req("activate", product_id, condition, request, NoParams),
                activate_inventory(store, product_id, condition, request))

DeactivateInventory ==
    \E product_id \in PIDs, condition \in PathConditions,
       request \in WriteRequests :
        Handled(Req("deactivate", product_id, condition, request, NoParams),
                deactivate_inventory(store, product_id, condition, request))

DeleteInventory ==
    \E product_id \in PIDs, condition \in PathConditions :
        Handled(Req("delete", product_id, condition, NoRequest, NoParams),
                delete_inventory(store, product_id, condition))

\* The request ends: its context is dropped, the store stays.
Teardown ==
    /\ req # Idle
    /\ req' = Idle
    /\ resp' = NoResponse
    /\ prev' = store
    /\ UNCHANGED <<store, test>>

Next ==
    \/ ListInventory
    \/ CreateInventory
    \/ GetInventoryByProductIdCondition
    \/ GetInventoryByProductId
    \/ GetInventoryByCondition
    \/ UpdateInventory
    \/ ActivateInventory
    \/ DeactivateInventory
    \/ DeleteInventory
    \/ Teardown

Spec == Init /\ [][Next]_vars

--------------------------------------------------------------------------
(* The model tests of serialization: a record is built, serialized, and   *)
(* the mapping is deserialized into a fresh record.                       *)

\* A test starts with any record of the table, on an empty store.
InitRoundTrip ==
    /\ store = EmptyBag
    /\ prev = EmptyBag
    /\ req = Idle
    /\ resp = NoResponse
    /\ \E inventory \in Rows :
          test = Test("built", inventory, None, FALSE, Inventory)

\* data = inventory.serialize()
SerializeInventory ==
    /\ test.step = "built"
    /\ test' = [test EXCEPT !.step = "serialized",
                            !.data = serialize(test.inventory)]
    /\ UNCHANGED <<store, prev, req, resp>>

\* inventory = Inventory(); inventory.deserialize(data)
DeserializeInventory ==
    /\ test.step = "serialized"
    /\ LET d == deserialize(Inventory, test.data)
       IN  test' = [test EXCEPT !.step = "deserialized",
                               !.ok = d.ok,
                               !.copy = d.inventory]
    /\ UNCHANGED <<store, prev, req, resp>>

NextRoundTrip ==
    \/ SerializeInventory
    \/ DeserializeInventory

SpecRoundTrip == InitRoundTrip /\ [][NextRoundTrip]_vars

--------------------------------------------------------------------------
(* Properties.  In a state with req # Idle, prev is the store the request *)
(* found, store the store it left and resp its response.                  *)

WriteOps == {"create", "update", "activate", "deactivate"}

PutOps == {"update", "activate", "deactivate"}

\* The key in the path of the request.
PathKey == <<req.product_id, req.condition>>

\* The request's body as sent, and its fields.
Sent == req.request.body

\* The row of a store with a key (one exists).
RowOf(st, key) == CHOOSE r \in all(st) : Key(r) = key

\* The rows of a store with another key, counted.
Without(st, key) ==
    [r \in {x \in DOMAIN st : Key(x) # key} |-> st[r]]

\* C1: the store holds at most one record for each (product_id,
\* condition) pair, whatever requests were made.
C1_UniqueKey ==
    /\ \A r \in all(store) : CopiesIn(r, store) = 1
    /\ \A r1, r2 \in all(store) : Key(r1) = Key(r2) => r1 = r2

\* A create whose valid payload names a stored key was handled, next to
\* another stored row.
C1_Witness ==
    /\ req.op = "create"
    /\ req.request.content_type = JSON
    /\ Sent \in ValidPayloads
    /\ <<Sent.fields.product_id[1], Sent.fields.condition[1]>> \in Keys(prev)
    /\ BagCardinality(store) = 2

\* C2: a create, update, activate or deactivate request that does not
\* declare application/json is answered 415 and leaves the store as it was.
C2_UnsupportedMediaType ==
    (req.op \in WriteOps /\ req.request.content_type # JSON)
        => (resp.status = HTTP_415_UNSUPPORTED_MEDIA_TYPE /\ store = prev)

\* C3: a successful activate (deactivate) sets available to true (false)
\* and keeps the record's quantity and restock_level and every other
\* record, whatever the body.
C3_ActivateOnlyFlipsAvailable ==
    (req.op \in {"activate", "deactivate"} /\ resp.status = HTTP_200_OK)
        => /\ PathKey \in Keys(prev) /\ PathKey \in Keys(store)
           /\ RowOf(store, PathKey).available = (req.op = "activate")
           /\ RowOf(store, PathKey).quantity = RowOf(prev, PathKey).quantity
           /\ RowOf(store, PathKey).restock_level
                 = RowOf(prev, PathKey).restock_level
           /\ Without(store, PathKey) = Without(prev, PathKey)

\* C4: every stored record has quantity >= 0.
C4_QuantityNonNegative ==
    \A r \in all(store) : r.quantity >= 0

\* C5: DELETE answers 204 whether or not the key is stored; afterwards
\* the key is not stored, the rows of other keys are as before, a get of
\* the key answers 404 and a second DELETE answers 204 and changes nothing.
C5_DeleteIdempotent ==
    req.op = "delete"
        => /\ resp.status = HTTP_204_NO_CONTENT
           /\ PathKey \notin Keys(store)
           /\ Without(store, PathKey) = Without(prev, PathKey)
           /\ get_inventory_by_product_id_condition(
                  store, req.product_id, req.condition).status
                = HTTP_404_NOT_FOUND
           /\ LET again == delete_inventory(
                               store, req.product_id, req.condition)
              IN  /\ again.status = HTTP_204_NO_CONTENT
                  /\ again.store = store

\* A DELETE removed a stored row and left another one.
C5_Witness ==
    /\ req.op = "delete"
    /\ PathKey \in Keys(prev)
    /\ BagCardinality(store) = 1

\* The answer of a get of a key: the status and the record.
GetOf(st, key) ==
    LET r == get_inventory_by_product_id_condition(st, key[1], key[2])
    IN  <<r.status, r.body>>

\* C6: after a successful create, a get of the payload's key answers 200
\* with the payload's product_id, condition, quantity and restock_level,
\* and available true when the payload did not give it; and the answer of
\* a get of a stored key changes only by an update, activate, deactivate
\* or delete addressed to that key.
C6_CreateThenGet ==
    /\ (req.op = "create" /\ resp.status = HTTP_201_CREATED)
         => LET f == Sent.fields
                got == GetOf(store, <<f.product_id[1], f.condition[1]>>)
            IN  /\ got[1] = HTTP_200_OK
                /\ got[2].kind = "dict"
                /\ got[2].fields.product_id = f.product_id
                /\ got[2].fields.condition = f.condition
                /\ got[2].fields.quantity = f.quantity
                /\ got[2].fields.restock_level = f.restock_level
                /\ (f.available = Absent
                      => got[2].fields.available = Some(TRUE))
    /\ \A key \in Keys(prev) :
         ~(req.op \in PutOps \cup {"delete"} /\ PathKey = key)
            => GetOf(store, key) = GetOf(prev, key)

\* A create without available and with a restock_level succeeded next to
\* a stored row.
C6_Witness ==
    /\ req.op = "create"
    /\ resp.status = HTTP_201_CREATED
    /\ Sent.fields.available = Absent
    /\ Sent.fields.restock_level # Absent
    /\ BagCardinality(prev) = 1

\* The order in which the list operation looks for its parameters.
Priority == <<PRODUCT_ID, CONDITION, QUANTITY, RESTOCK_LEVEL, AVAILABLE>>

Supplied(params) == {i \in 1..Len(Priority) : params[Priority[i]] # Absent}

\* A row matches the value of a parameter.
Matches(r, name, value) ==
    IF name = CONDITION THEN r.condition.name = value
    ELSE IF name = RESTOCK_LEVEL THEN r.restock_level = Some(value)
    ELSE r[name] = value

\* The rows matching the first supplied parameter alone; all rows when
\* none of the five is supplied.
Selected(st, params) ==
    IF Supplied(params) = {}
    THEN all(st)
    ELSE LET i == CHOOSE j \in Supplied(params) :
                      \A k \in Supplied(params) : j <= k
         IN  {r \in all(st) : Matches(r, Priority[i], params[Priority[i]][1])}

\* The parameters of the request are some of the five, or none at all.
Recognised(params) == Supplied(params) # {} \/ ~params.other

\* C7: the list operation answers with the records matching the first
\* parameter supplied in the order product_id, condition, quantity,
\* restock_level, available, alone; with all records when none is supplied.
C7_ListFilterPriority ==
    (req.op = "list" /\ Recognised(req.params))
        => /\ resp.results
                = {serialize(r) : r \in Selected(prev, req.params)}
           /\ resp.results # {}
                => (resp.status = HTTP_200_OK /\ resp.is_array)

\* A list with product_id and condition answered a record of that product
\* with another condition.
C7_Witness ==
    /\ req.op = "list"
    /\ req.params.product_id # Absent
    /\ req.params.condition # Absent
    /\ resp.status = HTTP_200_OK
    /\ \E m \in resp.results :
          m.fields.condition # req.params.condition

\* The rows a collection read asks for.
Asked ==
    CASE req.op = "list" -> Selected(prev, req.params)
      [] req.op = "get_by_product_id" ->
            {r \in all(prev) : r.product_id = req.product_id}
      [] req.op = "get_by_condition" ->
            {r \in all(prev) : r.condition.name = req.condition}

\* C8: a collection read answers 404 whenever no stored record matches,
\* and 200 only with a non-empty array.
C8_EmptyIsNotFound ==
    (\/ req.op = "list" /\ Recognised(req.params)
     \/ req.op \in {"get_by_product_id", "get_by_condition"})
        => /\ Asked = {} => resp.status = HTTP_404_NOT_FOUND
           /\ resp.status = HTTP_200_OK
                => (resp.is_array /\ resp.results # {})

\* C9: an update, activate or deactivate addressed to a key that is not
\* stored answers 404 and leaves the store as it was.
C9_PutAbsentNotFound ==
    (req.op \in PutOps /\ PathKey \notin Keys(prev))
        => (resp.status = HTTP_404_NOT_FOUND /\ store = prev)

\* An update with a valid JSON payload was addressed to a key that is not
\* stored, while another key is.
C9_Witness ==
    /\ req.op = "update"
    /\ PathKey \notin Keys(prev)
    /\ req.request.content_type = JSON
    /\ Sent \in ValidPayloads
    /\ BagCardinality(prev) = 1

\* A payload that is no mapping, lacks product_id, quantity or condition,
\* or whose condition is none of NEW, OPEN_BOX, USED.
Invalid(data) ==
    \/ data.kind # "dict"
    \/ data.fields.product_id = Absent
    \/ data.fields.quantity = Absent
    \/ data.fields.condition = Absent
    \/ data.fields.condition \notin {<<"NEW">>, <<"OPEN_BOX">>, <<"USED">>}

\* C10 as stated: deserializing such a payload fails, and a create or
\* update request carrying it (as JSON) answers 400 and persists nothing.
C10_InvalidPayloadIs400 ==
    (/\ req.op \in {"create", "update"}
     /\ req.request.content_type = JSON
     /\ Invalid(Sent))
        => /\ ~deserialize(Inventory, Sent).ok
           /\ resp.status = HTTP_400_BAD_REQUEST
           /\ store = prev

\* C10 amended: deserializing such a payload fails and a create or update
\* request carrying it persists nothing; it answers 400 when it declares
\* application/json and, for an update, is addressed to a stored key.
C10_InvalidPayloadRejected ==
    (req.op \in {"create", "update"} /\ Invalid(Sent))
        => /\ ~deserialize(Inventory, Sent).ok
           /\ store = prev
           /\ (/\ req.request.content_type = JSON
               /\ req.op = "update" => PathKey \in Keys(prev))
                 => resp.status = HTTP_400_BAD_REQUEST

\* An update of a stored key carried a payload with the condition "new".
C10_Witness ==
    /\ req.op = "update"
    /\ req.request.content_type = JSON
    /\ PathKey \in Keys(prev)
    /\ Sent.fields.condition = Some("new")
    /\ resp.status = HTTP_400_BAD_REQUEST

\* C11: for every valid record, serialize gives the condition as the
\* name of the member, and deserializing the mapping into a fresh record
\* succeeds and gives a record with the same product_id, condition,
\* quantity and restock_level.
C11_RoundTrip ==
    /\ test.step \in {"serialized", "deserialized"}
         => /\ test.data.kind = "dict"
            /\ test.data.fields.condition
                 = Some(test.inventory.condition.name)
            /\ test.data.fields.condition[1] \in ConditionNames
    /\ test.step = "deserialized"
         => /\ test.ok
            /\ test.copy.product_id = test.inventory.product_id
            /\ test.copy.condition = test.inventory.condition
            /\ test.copy.quantity = test.inventory.quantity
            /\ test.copy.restock_level = test.inventory.restock_level

\* An OPEN_BOX record without restock_level went through the round trip.
C11_Witness ==
    /\ test.step = "deserialized"
    /\ test.inventory.condition = Member("OPEN_BOX")
    /\ test.inventory.restock_level = Absent
    /\ test.inventory.product_id = 2

\* The key a payload names.
SentKey == <<Sent.fields.product_id[1], Sent.fields.condition[1]>>

\* C12: a successful update, activate or deactivate keeps the stored
\* keys: the record keeps the key of the path, with a member of Condition
\* as its condition, whatever key the body names; no record of another
\* key is created or modified.
C12_PutKeepsKeys ==
    (req.op \in PutOps /\ resp.status = HTTP_200_OK)
        => /\ Keys(store) = Keys(prev)
           /\ BagCardinality(store) = BagCardinality(prev)
           /\ PathKey \in Keys(store)
           /\ RowOf(store, PathKey).condition
                 \in {Member(n) : n \in ConditionNames}
           /\ resp.body.fields.product_id = Some(req.product_id)
           /\ resp.body.fields.condition = Some(req.condition)
           /\ Without(store, PathKey) = Without(prev, PathKey)

\* An update succeeded whose body names the key of another stored record.
C12_Witness ==
    /\ req.op = "update"
    /\ resp.status = HTTP_200_OK
    /\ SentKey # PathKey
    /\ SentKey \in Keys(prev)

\* An activate succeeded whose body names a key that is not stored.
C12_WitnessUnstored ==
    /\ req.op = "activate"
    /\ resp.status = HTTP_200_OK
    /\ SentKey # PathKey
    /\ SentKey \notin Keys(prev)

==========================================================================
